---- MODULE Spec2Model ----
(***************************************************************************)
(* A model of package flatten (src/flatten.go): Flatten, FlattenAll and    *)
(* the recursive traversals flatten / flattenAll with the key encoder      *)
(* enkey and the predicate allPrimitives.                                  *)
(*                                                                         *)
(* Text is a sequence of bytes (Go strings compare and concatenate         *)
(* byte-wise).  A Go value of type interface{} is a record                 *)
(*     [kind, str, num, items]                                             *)
(* where kind is the dynamic type, str the payload of a string, num the    *)
(* payload of a bool (0/1) or of a number, and items the entries of a map  *)
(* or slice, each [key, val].  The items of a map are listed in the order  *)
(* one `range` over it visits them; IterationOrders gives every order the *)
(* Go runtime may pick.                                                    *)
(***************************************************************************)
EXTENDS Integers, Sequences, FiniteSets, TLC

VARIABLES nested, pc, prefix, style, sorted, flat, list, err, again

vars == <<nested, pc, prefix, style, sorted, flat, list, err, again>>

(***************************************************************************)
(* Bounds of the model.                                                    *)
(***************************************************************************)
\* the generated input trees have at most this many nodes (values)
MaxNodes == 4

(***************************************************************************)
(* SeparatorStyle (src/flatten.go:55-68); 0 is the skipped iota value.     *)
(***************************************************************************)
UnsetStyle == 0
DotStyle == 1
SlashStyle == 2
RailsStyle == 3

Styles == {UnsetStyle, DotStyle, SlashStyle, RailsStyle}

NotValidInputError == "Not a valid input: map or slice"

(***************************************************************************)
(* Values.                                                                 *)
(***************************************************************************)
StringV(s) == [kind |-> "string", str |-> s, num |-> 0, items |-> <<>>]
BoolV(b) == [kind |-> "bool", str |-> <<>>, num |-> b, items |-> <<>>]
Float64V(n) == [kind |-> "float64", str |-> <<>>, num |-> n, items |-> <<>>]
\* a value of a struct type (struct{}{}): none of map, slice or scalar
StructV == [kind |-> "struct", str |-> <<>>, num |-> 0, items |-> <<>>]
MapV(its) == [kind |-> "map", str |-> <<>>, num |-> 0, items |-> its]
SliceV(its) == [kind |-> "slice", str |-> <<>>, num |-> 0, items |-> its]

Entry(k, v) == [key |-> k, val |-> v]
\* the items of a slice: the elements, without keys
Elems(vs) == [i \in 1..Len(vs) |-> Entry(<<>>, vs[i])]

\* byte-wise order of Go strings (the order sort.Strings uses)
RECURSIVE LexLess(_, _)
LexLess(s, t) ==
    IF t = <<>> THEN FALSE
    ELSE IF s = <<>> THEN TRUE
    ELSE IF Head(s) # Head(t) THEN Head(s) < Head(t)
    ELSE LexLess(Tail(s), Tail(t))

\* strconv.Itoa
RECURSIVE Itoa(_)
Itoa(i) ==
    IF i < 0 THEN <<45>> \o Itoa(0 - i)
    ELSE IF i < 10 THEN <<48 + i>>
    ELSE Itoa(i \div 10) \o <<48 + (i % 10)>>

\* fmt's %v of a value that is no map or slice
Sprintv(v) ==
    CASE v.kind = "string" -> v.str
      [] v.kind = "bool" -> IF v.num = 1 THEN <<116, 114, 117, 101>>
                                        ELSE <<102, 97, 108, 115, 101>>
      [] v.kind = "struct" -> <<123, 125>>
      [] OTHER -> Itoa(v.num)

(***************************************************************************)
(* enkey (src/flatten.go:212-229)                                          *)
(***************************************************************************)
\* enkey writing the connective before the first segment too
enkey_ConnectiveAtTop(top, pfx, subkey, st) ==
    CASE st = DotStyle -> pfx \o <<46>> \o subkey
      [] st = SlashStyle -> pfx \o <<47>> \o subkey
      [] st = RailsStyle -> pfx \o <<91>> \o subkey \o <<93>>
      [] OTHER -> pfx

\* enkey appending the segment alone when the style is none of the three
enkey_DefaultAppends(top, pfx, subkey, st) ==
    IF top THEN pfx \o subkey
    ELSE CASE st = DotStyle -> pfx \o <<46>> \o subkey
           [] st = SlashStyle -> pfx \o <<47>> \o subkey
           [] st = RailsStyle -> pfx \o <<91>> \o subkey \o <<93>>
           [] OTHER -> pfx \o subkey

enkey(top, pfx, subkey, st) ==
    IF top THEN pfx \o subkey
    ELSE CASE st = DotStyle -> pfx \o <<46>> \o subkey
           [] st = SlashStyle -> pfx \o <<47>> \o subkey
           [] st = RailsStyle -> pfx \o <<91>> \o subkey \o <<93>>
           [] OTHER -> pfx

(***************************************************************************)
(* allPrimitives (src/flatten.go:127-137)                                  *)
(***************************************************************************)
PrimitiveKinds == {"string", "int32", "int64", "float32", "float64", "json.Number"}

\* allPrimitives with bool among the cases
allPrimitives_WithBool(arr) ==
    \A i \in 1..Len(arr) : arr[i].val.kind \in PrimitiveKinds \cup {"bool"}

allPrimitives(arr) == \A i \in 1..Len(arr) : arr[i].val.kind \in PrimitiveKinds

(***************************************************************************)
(* flatten (src/flatten.go:139-175).  The flat map is a function from keys *)
(* to values; the traversal returns the error and the map as it left it.   *)
(***************************************************************************)
EmptyMap == [k \in {} |-> StructV]

Put(m, k, v) == [x \in (DOMAIN m) \cup {k} |-> IF x = k THEN v ELSE m[x]]

RECURSIVE flatten(_, _, _, _, _)

\* assign without the map case: a nested map is stored as a value
assign_NoMapCase(flatMap, newKey, v, st) ==
    LET shouldFlatten ==
            CASE v.kind = "slice" -> ~allPrimitives(v.items)
              [] OTHER -> FALSE
    IN IF ~shouldFlatten
       THEN [err |-> "nil", flatMap |-> Put(flatMap, newKey, v)]
       ELSE flatten(FALSE, flatMap, v, newKey, st)

\* the closure assign of flatten
assign(flatMap, newKey, v, st) ==
    LET shouldFlatten ==
            CASE v.kind = "slice" -> ~allPrimitives(v.items)
              [] v.kind = "map" -> TRUE
              [] OTHER -> FALSE
    IN IF ~shouldFlatten
       THEN [err |-> "nil", flatMap |-> Put(flatMap, newKey, v)]
       ELSE flatten(FALSE, flatMap, v, newKey, st)

\* the two range loops of flatten, from item i on; what assign returns is dropped
RECURSIVE flattenRange(_, _, _, _, _, _)

\* the loops taking only the first entry visited for a top-level one
flattenRange_TopOnce(top, flatMap, n, pfx, st, i) ==
    IF i > Len(n.items) THEN flatMap
    ELSE LET subkey == IF n.kind = "map" THEN n.items[i].key ELSE Itoa(i - 1)
             newKey == enkey(top /\ i = 1, pfx, subkey, st)
         IN flattenRange(top, assign(flatMap, newKey, n.items[i].val, st).flatMap,
                         n, pfx, st, i + 1)

flattenRange(top, flatMap, n, pfx, st, i) ==
    IF i > Len(n.items) THEN flatMap
    ELSE LET subkey == IF n.kind = "map" THEN n.items[i].key ELSE Itoa(i - 1)
             newKey == enkey(top, pfx, subkey, st)
         IN flattenRange(top, assign(flatMap, newKey, n.items[i].val, st).flatMap,
                         n, pfx, st, i + 1)

flatten(top, flatMap, n, pfx, st) ==
    IF n.kind \in {"map", "slice"}
    THEN [err |-> "nil", flatMap |-> flattenRange(top, flatMap, n, pfx, st, 1)]
    ELSE [err |-> NotValidInputError, flatMap |-> flatMap]

(***************************************************************************)
(* Flatten (src/flatten.go:76-85)                                          *)
(***************************************************************************)
Flatten(n, pfx, st) ==
    LET r == flatten(TRUE, EmptyMap, n, pfx, st)
    IN IF r.err # "nil"
       THEN [isNil |-> TRUE, flatmap |-> EmptyMap, err |-> r.err]
       ELSE [isNil |-> FALSE, flatmap |-> r.flatMap, err |-> "nil"]

(***************************************************************************)
(* flattenAll (src/flatten.go:177-210)                                     *)
(***************************************************************************)
RECURSIVE flattenAll(_, _, _, _, _)

\* assign of flattenAll with the leaf-array exception of flatten
assignAll_LeafArray(result, newKey, v, st) ==
    IF v.kind = "map" \/ (v.kind = "slice" /\ ~allPrimitives(v.items))
    THEN flattenAll(FALSE, result, v, newKey, st)
    ELSE [err |-> "nil", result |-> Append(result, newKey \o <<46>> \o Sprintv(v))]

\* the closure assign of flattenAll
assignAll(result, newKey, v, st) ==
    IF v.kind \in {"map", "slice"}
    THEN flattenAll(FALSE, result, v, newKey, st)
    ELSE [err |-> "nil", result |-> Append(result, newKey \o <<46>> \o Sprintv(v))]

\* the two range loops of flattenAll, from item i on; what assign returns is dropped
RECURSIVE flattenAllRange(_, _, _, _, _, _)
flattenAllRange(top, result, n, pfx, st, i) ==
    IF i > Len(n.items) THEN result
    ELSE LET subkey == IF n.kind = "map" THEN n.items[i].key ELSE Itoa(i - 1)
             newKey == enkey(top, pfx, subkey, st)
         IN flattenAllRange(top, assignAll(result, newKey, n.items[i].val, st).result,
                            n, pfx, st, i + 1)

\* flattenAll without the default case
flattenAll_NoDefault(top, result, n, pfx, st) ==
    [err |-> "nil", result |-> flattenAllRange(top, result, n, pfx, st, 1)]

flattenAll(top, result, n, pfx, st) ==
    IF n.kind \in {"map", "slice"}
    THEN [err |-> "nil", result |-> flattenAllRange(top, result, n, pfx, st, 1)]
    ELSE [err |-> NotValidInputError, result |-> result]

\* sort.Strings
RECURSIVE Insert(_, _)
Insert(s, x) ==
    IF s = <<>> THEN <<x>>
    ELSE IF LexLess(x, Head(s)) THEN <<x>> \o s
    ELSE <<Head(s)>> \o Insert(Tail(s), x)

RECURSIVE SortStrings(_)
SortStrings(s) == IF s = <<>> THEN <<>> ELSE Insert(SortStrings(Tail(s)), Head(s))

(***************************************************************************)
(* FlattenAll (src/flatten.go:90-102)                                      *)
(***************************************************************************)
\* FlattenAll without the sort
FlattenAll_Unsorted(n, pfx, st, srt) ==
    LET r == flattenAll(TRUE, <<>>, n, pfx, st)
    IN IF r.err # "nil"
       THEN [isNil |-> TRUE, result |-> <<>>, err |-> r.err]
       ELSE [isNil |-> FALSE, result |-> r.result, err |-> "nil"]

FlattenAll(n, pfx, st, srt) ==
    LET r == flattenAll(TRUE, <<>>, n, pfx, st)
    IN IF r.err # "nil"
       THEN [isNil |-> TRUE, result |-> <<>>, err |-> r.err]
       ELSE [isNil |-> FALSE,
             result |-> IF srt THEN SortStrings(r.result) ELSE r.result,
             err |-> "nil"]

(***************************************************************************)
(* The order in which `range` visits a map is unspecified: every           *)
(* permutation of the entries, at every map of the tree.                   *)
(***************************************************************************)
Perms(n) == {p \in [1..n -> 1..n] : \A i \in 1..n, j \in 1..n : i # j => p[i] # p[j]}

RECURSIVE IterationOrders(_)
IterationOrders(t) ==
    IF t.items = <<>> THEN {t}
    ELSE LET n == Len(t.items)
             kids == [i \in 1..n |-> IterationOrders(t.items[i].val)]
             choices == {c \in [1..n -> UNION {kids[i] : i \in 1..n}] :
                            \A i \in 1..n : c[i] \in kids[i]}
             orders == IF t.kind = "map" THEN Perms(n) ELSE {[i \in 1..n |-> i]}
         IN {[t EXCEPT !.items = [i \in 1..n |-> Entry(t.items[p[i]].key, c[p[i]])]] :
                p \in orders, c \in choices}

(***************************************************************************)
(* The inputs: every tree of at most MaxNodes values over a few keys and   *)
(* scalars, and the trees of the package documentation and tests.          *)
(***************************************************************************)
Keys == {<<97>>, <<98>>, <<97, 46, 98>>}                \* "a", "b", "a.b"

\* "x", true, float64(12), struct{}{}
Scalars == {StringV(<<120>>), BoolV(1), Float64V(12), StructV}

Prefixes == {<<>>, <<112, 58>>}                         \* "", "p:"

Range(s) == {s[i] : i \in 1..Len(s)}

AscKeys(k) ==
    {ks \in [1..k -> Keys] : \A i \in 1..k, j \in 1..k : i < j => LexLess(ks[i], ks[j])}

\* the sequences of trees with n nodes in all, tab[s] being the trees of s nodes
RECURSIVE Forests(_, _)
Forests(tab, n) ==
    IF n = 0 THEN {<<>>}
    ELSE UNION {{<<t>> \o r : t \in tab[s], r \in Forests(tab, n - s)} : s \in 1..n}

\* <<the trees of 1 node, ..., the trees of n nodes>>
RECURSIVE TreeTable(_)
TreeTable(n) ==
    IF n = 1 THEN <<Scalars \cup {MapV(<<>>), SliceV(<<>>)}>>
    ELSE LET tab == TreeTable(n - 1)
             fs == Forests(tab, n - 1)
         IN Append(tab,
                {SliceV(Elems(f)) : f \in fs}
                \cup UNION {{MapV([i \in 1..Len(f) |-> Entry(ks[i], f[i])]) :
                                ks \in AscKeys(Len(f))} :
                               f \in {g \in fs : Len(g) <= Cardinality(Keys)}})

\* the tree of the package documentation (src/flatten.go:9-17)
DocExample ==
    MapV(<<Entry(<<111, 110, 101>>,
                 MapV(<<Entry(<<116, 119, 111>>,
                              SliceV(Elems(<<StringV(<<50, 97>>), StringV(<<50, 98>>)>>)))>>)),
           Entry(<<115, 105, 100, 101>>, StringV(<<118, 97, 108, 117, 101>>))>>)

InputTrees == (UNION Range(TreeTable(MaxNodes))) \cup {DocExample}

(***************************************************************************)
(* The state machine: a caller holding a tree calls one function.          *)
(***************************************************************************)
NoFlat == [isNil |-> TRUE, flatmap |-> EmptyMap, err |-> "nil"]
NoList == [isNil |-> TRUE, result |-> <<>>, err |-> "nil"]

Init ==
    /\ nested \in InputTrees
    /\ pc = "idle"
    /\ prefix = <<>>
    /\ style = UnsetStyle
    /\ sorted = FALSE
    /\ flat = NoFlat
    /\ list = NoList
    /\ err = "nil"
    /\ again = NoFlat

\* a call of Flatten; its parameter has type map[string]interface{}
CallFlatten ==
    /\ pc = "idle"
    /\ nested.kind = "map"
    /\ \E pfx \in Prefixes, st \in Styles, it \in IterationOrders(nested) :
          /\ prefix' = pfx
          /\ style' = st
          /\ flat' = Flatten(it, pfx, st)
          /\ err' = flat'.err
    /\ pc' = "Flatten"
    /\ UNCHANGED <<nested, sorted, list, again>>

\* a second call of Flatten with the arguments of the first
CallFlattenAgain ==
    /\ pc = "Flatten"
    /\ \E it \in IterationOrders(nested) : again' = Flatten(it, prefix, style)
    /\ pc' = "FlattenTwice"
    /\ UNCHANGED <<nested, prefix, style, sorted, flat, list, err>>

\* a call of FlattenAll; its parameter has type interface{}
CallFlattenAll ==
    /\ pc = "idle"
    /\ \E pfx \in Prefixes, st \in Styles, srt \in BOOLEAN, it \in IterationOrders(nested) :
          /\ prefix' = pfx
          /\ style' = st
          /\ sorted' = srt
          /\ list' = FlattenAll(it, pfx, st, srt)
          /\ err' = list'.err
    /\ pc' = "FlattenAll"
    /\ UNCHANGED <<nested, flat, again>>

Next == CallFlatten \/ CallFlattenAgain \/ CallFlattenAll

Spec == Init /\ [][Next]_vars

(***************************************************************************)
(* What the claims speak of: the values below the root of a tree with the  *)
(* segments (map keys, decimal indices) leading to each, the leaves, and   *)
(* the key a style gives to a sequence of segments.                        *)
(***************************************************************************)
Seg(t, i) == IF t.kind = "map" THEN t.items[i].key ELSE Itoa(i - 1)

Node(p, v) == [path |-> p, val |-> v]

\* every value below t, with its path, segs being the path of t
RECURSIVE Below(_, _)
Below(t, segs) ==
    UNION {{Node(Append(segs, Seg(t, i)), t.items[i].val)}
               \cup Below(t.items[i].val, Append(segs, Seg(t, i))) : i \in 1..Len(t.items)}

IsContainer(v) == v.kind \in {"map", "slice"}

\* the leaves when every map and every slice is descended into
ScalarLeaves(t) == {n \in Below(t, <<>>) : ~IsContainer(n.val)}

\* a slice all of whose elements have a kind of `intact`
WholeSlice(v, intact) ==
    v.kind = "slice" /\ \A i \in 1..Len(v.items) : v.items[i].val.kind \in intact

\* the leaves when a slice with elements of the kinds `intact` only is a leaf itself
RECURSIVE LeavesOf(_, _, _)
LeavesOf(t, segs, intact) ==
    UNION {LET v == t.items[i].val
               p == Append(segs, Seg(t, i))
           IN IF ~IsContainer(v) \/ WholeSlice(v, intact)
              THEN {Node(p, v)}
              ELSE LeavesOf(v, p, intact) : i \in 1..Len(t.items)}

\* the kinds the data model calls Scalar: text, boolean, integer, floating point, number
ScalarKinds ==
    {"string", "bool", "int", "int32", "int64", "float32", "float64", "json.Number"}

\* the kinds a leaf array is made of in the code
LeafArrayKinds == {"string", "int32", "int64", "float32", "float64", "json.Number"}

NamedStyles == {DotStyle, SlashStyle, RailsStyle}

\* a segment below the first, as the style writes it; the unset style writes nothing
Connective(st, s) ==
    CASE st = DotStyle -> <<46>> \o s
      [] st = SlashStyle -> <<47>> \o s
      [] st = RailsStyle -> <<91>> \o s \o <<93>>
      [] OTHER -> <<>>

RECURSIVE JoinRest(_, _)
JoinRest(segs, st) ==
    IF segs = <<>> THEN <<>> ELSE Connective(st, Head(segs)) \o JoinRest(Tail(segs), st)

\* prefix + first segment + the connective of each further segment
EncodedPath(pfx, segs, st) == pfx \o Head(segs) \o JoinRest(Tail(segs), st)

\* the segments written one after the other with nothing between them
RECURSIVE Concat(_)
Concat(segs) == IF segs = <<>> THEN <<>> ELSE Head(segs) \o Concat(Tail(segs))

\* no two values of the tree have the same encoded key
DistinctKeys(t, pfx, st) ==
    \A m \in Below(t, <<>>), n \in Below(t, <<>>) :
        m.path # n.path => EncodedPath(pfx, m.path, st) # EncodedPath(pfx, n.path, st)

\* no two leaves of the map variant have the same encoded key
DistinctLeafKeys(t, pfx, st) ==
    \A m \in LeavesOf(t, <<>>, LeafArrayKinds), n \in LeavesOf(t, <<>>, LeafArrayKinds) :
        m.path # n.path => EncodedPath(pfx, m.path, st) # EncodedPath(pfx, n.path, st)

Count(s, e) == Cardinality({i \in 1..Len(s) : s[i] = e})

(***************************************************************************)
(* C1.  Flatten of the tree of the package documentation,                  *)
(* {"one":{"two":["2a","2b"]},"side":"value"}, with prefix "" and the dot  *)
(* style returns exactly {"one.two.0":"2a","one.two.1":"2b",               *)
(* "side":"value"}.  The code keeps ["2a","2b"] whole under "one.two".     *)
(***************************************************************************)
DocOutput ==
    (<<111, 110, 101, 46, 116, 119, 111, 46, 48>> :> StringV(<<50, 97>>))
        @@ (<<111, 110, 101, 46, 116, 119, 111, 46, 49>> :> StringV(<<50, 98>>))
        @@ (<<115, 105, 100, 101>> :> StringV(<<118, 97, 108, 117, 101>>))

\* C1: the documented call returns the documented map
C1_DocExample ==
    (pc = "Flatten" /\ nested = DocExample /\ prefix = <<>> /\ style = DotStyle)
        => (flat.err = "nil" /\ ~flat.isNil /\ flat.flatmap = DocOutput)

(***************************************************************************)
(* C2.  The leaf-array exception of Flatten.                               *)
(***************************************************************************)
SlicesOf(t) == {n \in Below(t, <<>>) : n.val.kind = "slice"}

Key(p) == EncodedPath(prefix, p, style)

\* the slice at n is the value of its key and nothing is keyed by its indices
HeldIntact(n) ==
    /\ Key(n.path) \in DOMAIN flat.flatmap
    /\ flat.flatmap[Key(n.path)] = n.val
    /\ \A i \in 1..Len(n.val.items) :
           Key(Append(n.path, Itoa(i - 1))) \notin DOMAIN flat.flatmap

\* the slice at n has no entry and each leaf reached through it has its key
Expanded(n, intact) ==
    /\ Key(n.path) \notin DOMAIN flat.flatmap
    /\ \A l \in LeavesOf(n.val, n.path, intact) :
           /\ Key(l.path) \in DOMAIN flat.flatmap
           /\ flat.flatmap[Key(l.path)] = l.val

HasMap(v) == \E i \in 1..Len(v.items) : v.items[i].val.kind = "map"

ListEntry(l) == EncodedPath(prefix, l.path, style) \o <<46>> \o Sprintv(l.val)

\* C4: the list is the bag of the entries of the scalar leaves
C4_OneEntryPerScalar ==
    (pc = "FlattenAll" /\ IsContainer(nested) /\ style \in NamedStyles)
        => /\ ~list.isNil
           /\ Len(list.result) = Cardinality(ScalarLeaves(nested))
           /\ \A e \in Range(list.result) \cup {ListEntry(l) : l \in ScalarLeaves(nested)} :
                  Count(list.result, e)
                      = Cardinality({l \in ScalarLeaves(nested) : ListEntry(l) = e})

\* FlattenAll met a slice of two primitives and listed both elements
C4_Witness ==
    /\ pc = "FlattenAll" /\ style \in NamedStyles
    /\ \E n \in SlicesOf(nested) :
           /\ Len(n.val.items) >= 2
           /\ WholeSlice(n.val, LeafArrayKinds)
           /\ \A i \in 1..Len(n.val.items) :
                  ListEntry(Node(Append(n.path, Itoa(i - 1)), n.val.items[i].val))
                      \in Range(list.result)

(***************************************************************************)
(* C5.  FlattenAll with sorted = true returns its entries in ascending     *)
(* byte-wise order.                                                        *)
(***************************************************************************)
\* C5 as stated (for a style of Dot, Slash, Rails): every entry is strictly smaller
\* than the next
C5_StrictlyAscending ==
    (pc = "FlattenAll" /\ sorted /\ ~list.isNil /\ style \in NamedStyles)
        => \A i \in 1..(Len(list.result) - 1) : LexLess(list.result[i], list.result[i + 1])

\* C5 amended: no entry is greater than the next (two leaves may give the same
\* entry, and equal entries stay next to each other)
C5_Ascending ==
    (pc = "FlattenAll" /\ sorted /\ ~list.isNil)
        => \A i \in 1..(Len(list.result) - 1) : ~LexLess(list.result[i + 1], list.result[i])

\* a sorted call returned entries that some visiting order yields in another order
C5_Witness ==
    /\ pc = "FlattenAll" /\ sorted /\ ~list.isNil
    /\ Len(list.result) >= 2
    /\ \E it \in IterationOrders(nested) :
           flattenAll(TRUE, <<>>, it, prefix, style).result # list.result

(***************************************************************************)
(* C6.  FlattenAll of a value that is neither map nor slice returns        *)
(* NotValidInputError and no list; Flatten and FlattenAll of the empty map *)
(* return the empty map and the empty list without error.                  *)
(***************************************************************************)
\* C6: a bare scalar gives the error and no list, the empty map gives empty results
C6_TopLevelOutcome ==
    /\ (pc = "FlattenAll" /\ ~IsContainer(nested))
           => (list.err = NotValidInputError /\ err = NotValidInputError
               /\ list.isNil /\ list.result = <<>>)
    /\ (pc = "FlattenAll" /\ nested = MapV(<<>>))
           => (err = "nil" /\ ~list.isNil /\ list.result = <<>>)
    /\ (pc = "Flatten" /\ nested = MapV(<<>>))
           => (err = "nil" /\ ~flat.isNil /\ DOMAIN flat.flatmap = {})

\* FlattenAll was called with a bare string and returned the error
C6_Witness ==
    pc = "FlattenAll" /\ nested.kind = "string" /\ err = NotValidInputError /\ list.isNil

(***************************************************************************)
(* C7.  A value that is none of map, slice or scalar anywhere in the tree  *)
(* makes Flatten and FlattenAll fail with NotValidInputError and return no *)
(* map or list.  The code stores or prints such a value as a leaf.         *)
(***************************************************************************)
HasInvalid(t) ==
    \/ t.kind \notin ScalarKinds \cup {"map", "slice"}
    \/ \E n \in Below(t, <<>>) : n.val.kind \notin ScalarKinds \cup {"map", "slice"}

\* C7: an invalid value at any depth makes both functions fail and return nothing
C7_InvalidAtDepth ==
    /\ (pc = "Flatten" /\ HasInvalid(nested))
           => (err = NotValidInputError /\ flat.isNil)
    /\ (pc = "FlattenAll" /\ HasInvalid(nested))
           => (err = NotValidInputError /\ list.isNil)

(***************************************************************************)
(* C8.  For a map of scalars and maps only, Flatten with prefix "" and the *)
(* dot style gives one entry per scalar leaf, keyed by the dot-joined path *)
(* of the leaf and holding its value.                                      *)
(***************************************************************************)
OnlyMapsAndScalars(t) == \A n \in Below(t, <<>>) : n.val.kind \in ScalarKinds \cup {"map"}

RECURSIVE DotJoined(_)
DotJoined(segs) ==
    IF Len(segs) = 1 THEN Head(segs)
    ELSE Head(segs) \o <<46>> \o DotJoined(Tail(segs))

OneEntryPerLeaf ==
    /\ Cardinality(DOMAIN flat.flatmap) = Cardinality(ScalarLeaves(nested))
    /\ \A l \in ScalarLeaves(nested) :
           /\ DotJoined(l.path) \in DOMAIN flat.flatmap
           /\ flat.flatmap[DotJoined(l.path)] = l.val

\* C8 as stated, for arbitrary keys
C8_OneEntryPerLeafAnyKeys ==
    (pc = "Flatten" /\ prefix = <<>> /\ style = DotStyle /\ OnlyMapsAndScalars(nested))
        => OneEntryPerLeaf

\* C8 amended: ... provided no two leaves have the same dot-joined path (as when
\* no key holds a ".")
C8_OneEntryPerLeaf ==
    (/\ pc = "Flatten" /\ prefix = <<>> /\ style = DotStyle /\ OnlyMapsAndScalars(nested)
     /\ \A l \in ScalarLeaves(nested), m \in ScalarLeaves(nested) :
            l.path # m.path => DotJoined(l.path) # DotJoined(m.path))
        => OneEntryPerLeaf

\* a map holding a map was flattened into two entries or more, one from depth 2
C8_Witness ==
    /\ pc = "Flatten" /\ prefix = <<>> /\ style = DotStyle /\ OnlyMapsAndScalars(nested)
    /\ Cardinality(DOMAIN flat.flatmap) >= 2
    /\ \E l \in ScalarLeaves(nested) :
           Len(l.path) >= 2 /\ DotJoined(l.path) \in DOMAIN flat.flatmap
    /\ \A l \in ScalarLeaves(nested), m \in ScalarLeaves(nested) :
           l.path # m.path => DotJoined(l.path) # DotJoined(m.path)

(***************************************************************************)
(* C9.  Two calls of Flatten with the same tree, prefix and style return   *)
(* equal maps, whatever order each visits the entries of the maps in.      *)
(***************************************************************************)
\* C9 as stated (for a style of Dot, Slash, Rails)
C9_SameResultTwice == (pc = "FlattenTwice" /\ style \in NamedStyles) => again = flat

\* C9 amended: ... provided no two leaves of the tree have the same encoded key
\* (of two leaves with one key the one visited last stays)
C9_SameResultTwiceDistinctKeys ==
    (pc = "FlattenTwice" /\ DistinctLeafKeys(nested, prefix, style)) => again = flat

\* Flatten was called twice on a map of several entries whose leaf keys differ
C9_Witness ==
    /\ pc = "FlattenTwice" /\ DistinctLeafKeys(nested, prefix, style)
    /\ Cardinality(IterationOrders(nested)) >= 2
    /\ Cardinality(DOMAIN flat.flatmap) >= 2
    /\ again = flat

(***************************************************************************)
(* C10.  With the unset style (0) a call is not rejected.                  *)
(***************************************************************************)
\* the entry of FlattenAll for leaf l when its key is k
EntryAt(k, l) == k \o <<46>> \o Sprintv(l.val)

SameEntries(s, E(_)) ==
    /\ Len(s) = Cardinality(ScalarLeaves(nested))
    /\ \A e \in Range(s) \cup {E(l) : l \in ScalarLeaves(nested)} :
           Count(s, e) = Cardinality({l \in ScalarLeaves(nested) : E(l) = e})

\* C10 as stated: a segment below the top level is appended with no connective
C10_UnsetStyleAppendsKey ==
    /\ (pc = "Flatten" /\ style = UnsetStyle)
           => /\ err = "nil" /\ ~flat.isNil
              /\ DOMAIN flat.flatmap =
                     {prefix \o Concat(l.path) : l \in LeavesOf(nested, <<>>, LeafArrayKinds)}
    /\ (pc = "FlattenAll" /\ style = UnsetStyle /\ IsContainer(nested))
           => /\ err = "nil" /\ ~list.isNil
              /\ LET E(l) == EntryAt(prefix \o Concat(l.path), l) IN SameEntries(list.result, E)

\* C10 amended: ... and a segment below the top level is dropped, the child path
\* is the parent path itself: every leaf is keyed by prefix + its first segment
C10_UnsetStyleDropsKey ==
    /\ (pc = "Flatten" /\ style = UnsetStyle)
           => /\ err = "nil" /\ ~flat.isNil
              /\ DOMAIN flat.flatmap =
                     {prefix \o Head(l.path) : l \in LeavesOf(nested, <<>>, LeafArrayKinds)}
    /\ (pc = "FlattenAll" /\ style = UnsetStyle /\ IsContainer(nested))
           => /\ err = "nil" /\ ~list.isNil
              /\ LET E(l) == EntryAt(prefix \o Head(l.path), l) IN SameEntries(list.result, E)

\* Flatten was called with the unset style on a tree with a leaf below the top level
C10_Witness ==
    /\ pc = "Flatten" /\ style = UnsetStyle /\ ~flat.isNil
    /\ \E l \in LeavesOf(nested, <<>>, LeafArrayKinds) :
           Len(l.path) >= 2 /\ prefix \o Head(l.path) \in DOMAIN flat.flatmap

====
